---- MODULE Spec2Model ----
(***************************************************************************)
(* rk-launcher-aws: the remote-kernel lifecycle manager of                 *)
(* src/rklauncher/__init__.py (RemoteKernel, RKManager.create,             *)
(* RKManager.remove, RKManager.get_installed) as a state machine.          *)
(*                                                                         *)
(* Python strings are TLA+ strings (\o is concatenation), Python None is   *)
(* the reserved string None.  The manifest file kernels.json is a JSON     *)
(* document, held as a tagged value: an object (a function from keys to    *)
(* JSON values), a string or null.  json.load / json.dump map dict, str    *)
(* and None to object, string and null and back.                           *)
(*                                                                         *)
(* The SSH transport (paramiko), scp, the remote host and the `rk` command *)
(* are external: whether a call raises, what a command prints and whether  *)
(* it exits with an error are choices of the environment.                  *)
(***************************************************************************)
EXTENDS Integers, Sequences, FiniteSets, TLC

VARIABLES
    manifest,    \* the JSON document in the local kernels.json file
    remoteDirs,  \* directories that exist on the remote side: <<user@uri, dir>>
    pc,          \* per invocation: the step it is about to take
    op,          \* per invocation: "none", "create", "remove" or "list"
    rk,          \* per invocation: the RemoteKernel the caller built
    args,        \* per invocation: the other arguments of the call
    loc,         \* per invocation: the local variables of the handler
    res,         \* per invocation: what the call returned or raised
    pre,         \* per invocation: the manifest when the call was made
    log,         \* per invocation: the external effects of the call, in order
    cmp          \* three RemoteKernel objects and what == returned on them

vars == <<manifest, remoteDirs, pc, op, rk, args, loc, res, pre, log, cmp>>

---------------------------------------------------------------------------
(* Python values *)

None == "<None>"

Falsy(x) == x = None \/ x = ""

\* `a or b` of Python, on strings and None
PyOr(a, b) == IF Falsy(a) THEN b ELSE a

StartsWith(s, prefix) ==
    /\ Len(prefix) <= Len(s)
    /\ SubSeq(s, 1, Len(prefix)) = prefix

\* `a in b` of Python on two strings: a is a substring of b
IsSubstring(a, b) ==
    \E i \in 1..(Len(b) - Len(a) + 1) : SubSeq(b, i, i + Len(a) - 1) = a

\* s.split(sep)[0]: the part of s before the first occurrence of sep
SplitFirst(s, sep) ==
    LET hits == {i \in 1..(Len(s) - Len(sep) + 1) : SubSeq(s, i, i + Len(sep) - 1) = sep}
    IN  IF hits = {} THEN s
        ELSE SubSeq(s, 1, (CHOOSE i \in hits : \A j \in hits : i <= j) - 1)

\* os.path.join(a, b) for a relative b
PathJoin(a, b) ==
    IF b # "" /\ StartsWith(b, "/") THEN b
    ELSE IF a = "" THEN b
    ELSE IF SubSeq(a, Len(a), Len(a)) = "/" THEN a \o b
    ELSE a \o "/" \o b

---------------------------------------------------------------------------
(* JSON documents *)

JNull == [t |-> "null"]
JStr(s) == [t |-> "str", s |-> s]
JObj(f) == [t |-> "obj", o |-> f]

IsObj(j) == j.t = "obj"
IsStr(j) == j.t = "str"
IsNull(j) == j.t = "null"

EmptyDict == [x \in {} |-> JNull]

\* json.dump of a Python str or None
ToJson(v) == IF v = None THEN JNull ELSE JStr(v)

\* json.load of a JSON string or null (an object is never read as a field here)
FromJson(j) == IF IsStr(j) THEN j.s ELSE None

\* d[k] = v on a dict
DictPut(d, k, v) == [x \in (DOMAIN d) \cup {k} |-> IF x = k THEN v ELSE d[x]]

\* y.get(k) on a JSON object, decoded
DictGet(y, k) == IF k \in DOMAIN y.o THEN FromJson(y.o[k]) ELSE None

RECURSIVE JsonLen(_), ItemsLen(_, _)

\* the length of the text json.dump writes for a document: null, "s", and
\* {"k": v, "k": v} with the separators ", " and ": "
JsonLen(j) ==
    IF IsNull(j) THEN 4
    ELSE IF IsStr(j) THEN Len(j.s) + 2
    ELSE IF DOMAIN j.o = {} THEN 2
    ELSE 2 + ItemsLen(j.o, DOMAIN j.o) + 2 * (Cardinality(DOMAIN j.o) - 1)

\* the lengths of the items "k": v of the keys S of dict d, added up
ItemsLen(d, S) ==
    IF S = {} THEN 0
    ELSE LET k == CHOOSE x \in S : TRUE
         IN  (Len(k) + 2) + 2 + JsonLen(d[k]) + ItemsLen(d, S \ {k})

---------------------------------------------------------------------------
(* The file kernels.json: a JSON document, or empty, or the text of a
   document followed by what is left of a longer text written before *)

\* the file after open(path, 'w'): truncated
EmptyFile == [t |-> "empty"]

\* the text of document head, then the last `extra` characters of an older text
BadFile(head, extra) == [t |-> "bad", head |-> head, extra |-> extra]

\* json.load can parse the file
IsJson(f) == f.t \in {"obj", "str", "null"}

\* the size of the file
FileLen(f) ==
    IF f.t = "empty" THEN 0
    ELSE IF f.t = "bad" THEN JsonLen(f.head) + f.extra
    ELSE JsonLen(f)

\* the file after the text of doc is written at offset 0 of a file opened
\* with 'w' earlier (json.dump and the close of the with-block): the text
\* replaces the start of what the file holds by now and leaves the rest
WriteFile(doc, cur) ==
    IF JsonLen(doc) >= FileLen(cur) THEN doc
    ELSE BadFile(doc, FileLen(cur) - JsonLen(doc))

---------------------------------------------------------------------------
(* RemoteKernel *)

\* '{uri} :: {rk_id}'.format_map(self.__dict__)
DefaultDisplayName(uri, rk_id) == uri \o " :: " \o rk_id

\* RemoteKernelInvalid with the check of rk_id left out
RemoteKernelInvalid_NoIdCheck(uri, rk_id, python_cmd) ==
    Falsy(uri) \/ Falsy(python_cmd)

\* RemoteKernel.__init__ raises ValueError
RemoteKernelInvalid(uri, rk_id, python_cmd) ==
    Falsy(uri) \/ Falsy(rk_id) \/ Falsy(python_cmd)

\* the object RemoteKernel.__init__ builds
RemoteKernel(uri, rk_id, venv, python_cmd, display_name) ==
    [rk_id        |-> rk_id,
     uri          |-> uri,
     python_cmd   |-> python_cmd,
     venv_name    |-> venv,
     display_name |-> PyOr(display_name, DefaultDisplayName(uri, rk_id))]

\* RemoteKernelEq comparing the kernel id as well
RemoteKernelEq_WithId(a, b) ==
    /\ a.uri = b.uri
    /\ a.venv_name = b.venv_name
    /\ a.python_cmd = b.python_cmd
    /\ a.rk_id = b.rk_id

\* RemoteKernel.__eq__
RemoteKernelEq(a, b) ==
    /\ a.uri = b.uri
    /\ a.venv_name = b.venv_name
    /\ a.python_cmd = b.python_cmd

NoKernel == RemoteKernel(None, None, None, None, None)

\* no comparison yet
NoCmp == [a |-> NoKernel, b |-> NoKernel, c |-> NoKernel, compared |-> FALSE,
          aa |-> FALSE, ab |-> FALSE, ba |-> FALSE, bc |-> FALSE, ac |-> FALSE]

---------------------------------------------------------------------------
(* The manifest: RKManager.__get_local_kernelspec_dict and get_installed *)

\* KeepsRecord keeping the records of the host instead of the others
KeepsRecord_OnlyHost(y, uri) == FromJson(y.o["remote_host"]) = uri

\* the host filter of get_installed: the records it keeps
KeepsRecord(y, uri) == FromJson(y.o["remote_host"]) # uri

\* the exception, if any, that one item (x, y) of kernels_dict.items() raises in
\* the list comprehension of get_installed: the filter y['remote_host'] != uri
\* is evaluated first, then RemoteKernel(...) for the items it keeps
ItemError(x, y, uri) ==
    IF ~IsObj(y) THEN "TypeError"
    ELSE IF "remote_host" \notin DOMAIN y.o THEN "KeyError"
    ELSE IF /\ KeepsRecord(y, uri)
            /\ RemoteKernelInvalid(FromJson(y.o["remote_host"]), x, DictGet(y, "interpreter"))
         THEN "ValueError"
    ELSE "none"

\* the exceptions get_installed(uri) can end with on manifest m (the first
\* failing item in file order decides; the model keeps no order, so each
\* failing item's exception is possible); empty when it returns
GetInstalledErrors(m, uri) ==
    IF ~IsJson(m) THEN {"JSONDecodeError"}
    ELSE IF ~IsObj(m) THEN {"AttributeError"}
    ELSE {ItemError(x, m.o[x], uri) : x \in DOMAIN m.o} \ {"none"}

\* the list get_installed(uri) returns (one RemoteKernel per kept record; the
\* keys of a dict are distinct, so the list is held as a set)
GetInstalled(m, uri) ==
    {RemoteKernel(FromJson(m.o[x].o["remote_host"]), x, DictGet(m.o[x], "venv"),
                  DictGet(m.o[x], "interpreter"), None) :
        x \in {k \in DOMAIN m.o : KeepsRecord(m.o[k], uri)}}

---------------------------------------------------------------------------
(* Inputs *)

Procs == {"p1", "p2"}

UriInputs == {"", "h", "ubuntu@h"}
\* the kernel ids the callers use: k1 .. k<NumIds>
NumIds == 2
KernelIds == {"k" \o ToString(i) : i \in 1..NumIds}
IdInputs == {""} \cup KernelIds
VenvInputs == {None, "v"}
PythonCmdInputs == {"", "python"}
DisplayNameInputs == {None}
OverwriteInputs == {FALSE, TRUE}
RequirementsInputs == {None, "reqs.txt"}
UsernameInputs == {None}
RootDirInputs == {None}
FilterInputs == {None, "h", "ubuntu@h"}

NoArgs ==
    [overwrite |-> FALSE, requirements_file |-> None, remote_username |-> None,
     remote_venv_root_dir |-> None, uri |-> None]

NoLoc == [overwrite |-> FALSE, sudo |-> "", stdout |-> "", kernel_dict |-> JNull, ret |-> {}]

---------------------------------------------------------------------------
(* State machine *)

Init ==
    /\ manifest = JObj(EmptyDict)
    /\ remoteDirs = {}
    /\ pc = [p \in Procs |-> "idle"]
    /\ op = [p \in Procs |-> "none"]
    /\ rk = [p \in Procs |-> NoKernel]
    /\ args = [p \in Procs |-> NoArgs]
    /\ loc = [p \in Procs |-> NoLoc]
    /\ res = [p \in Procs |-> "none"]
    /\ pre = [p \in Procs |-> JNull]
    /\ log = [p \in Procs |-> <<>>]
    /\ cmp = NoCmp

\* an exception leaves the handler
Raise(p, exc) ==
    /\ pc' = [pc EXCEPT ![p] = "raised"]
    /\ res' = [res EXCEPT ![p] = exc]

Goto(p, label) ==
    /\ pc' = [pc EXCEPT ![p] = label]
    /\ UNCHANGED res

Emit(p, ev) == log' = [log EXCEPT ![p] = Append(@, ev)]

\* the caller builds a RemoteKernel
NewRemoteKernel(p) ==
    /\ pc[p] = "idle"
    /\ \E uri \in UriInputs, rk_id \in IdInputs, venv \in VenvInputs,
         python_cmd \in PythonCmdInputs, display_name \in DisplayNameInputs :
         /\ rk' = [rk EXCEPT ![p] = RemoteKernel(uri, rk_id, venv, python_cmd, display_name)]
         /\ IF RemoteKernelInvalid(uri, rk_id, python_cmd)
            THEN Raise(p, "ValueError")
            ELSE Goto(p, "built")
    /\ UNCHANGED <<manifest, remoteDirs, op, args, loc, pre, log, cmp>>

\* RKManager.get_installed(uri), called by the user
ListInstalled(p) ==
    /\ pc[p] = "idle"
    /\ \E uri \in FilterInputs :
         /\ op' = [op EXCEPT ![p] = "list"]
         /\ args' = [args EXCEPT ![p].uri = uri]
         /\ pre' = [pre EXCEPT ![p] = manifest]
         /\ IF GetInstalledErrors(manifest, uri) = {}
            THEN /\ loc' = [loc EXCEPT ![p].ret = GetInstalled(manifest, uri)]
                 /\ pc' = [pc EXCEPT ![p] = "done"]
                 /\ res' = [res EXCEPT ![p] = "ok"]
            ELSE /\ \E exc \in GetInstalledErrors(manifest, uri) : Raise(p, exc)
                 /\ UNCHANGED loc
    /\ UNCHANGED <<manifest, remoteDirs, rk, log, cmp>>

\* the call is over: the caller has its result
Return(p) ==
    /\ pc[p] \in {"done", "raised"}
    /\ pc' = [pc EXCEPT ![p] = "idle"]
    /\ op' = [op EXCEPT ![p] = "none"]
    /\ rk' = [rk EXCEPT ![p] = NoKernel]
    /\ args' = [args EXCEPT ![p] = NoArgs]
    /\ loc' = [loc EXCEPT ![p] = NoLoc]
    /\ res' = [res EXCEPT ![p] = "none"]
    /\ pre' = [pre EXCEPT ![p] = JNull]
    /\ log' = [log EXCEPT ![p] = <<>>]
    /\ UNCHANGED <<manifest, remoteDirs, cmp>>

---------------------------------------------------------------------------
(* RKManager.create: the names it derives before the session opens *)

RemoteUsername(a) == PyOr(a.remote_username, "ubuntu")

\* remote_venv_dir: None without a venv name
RemoteVenvDir(k, a) ==
    IF Falsy(k.venv_name) THEN None
    ELSE PathJoin(PyOr(a.remote_venv_root_dir, "~/"), k.venv_name)

RemoteBinDir(k, a) == PyOr(RemoteVenvDir(k, a), "")
RemotePythonCmd(k, a) == PathJoin(RemoteBinDir(k, a), "python")
RemotePipCmd(k, a) == PathJoin(RemoteBinDir(k, a), "pip")
RemoteJupyterCmd(k, a) == PathJoin(RemoteBinDir(k, a), "jupyter")

\* '{user}@{uri}'.format(...): the remote_host a record stores
RemoteHost(user, uri) == user \o "@" \o uri

\* the record create stores under the kernel id (a JSON object)
ManifestRecord(k, a) ==
    JObj([display_name |-> ToJson(k.display_name),
          interpreter  |-> ToJson(k.python_cmd),
          language     |-> JStr("python"),
          remote_host  |-> JStr(RemoteHost(RemoteUsername(a), k.uri)),
          venv         |-> ToJson(k.venv_name)])

\* the remote commands, as create formats them
CmdDoesVenvExist(k, a) == "[ -d " \o RemoteVenvDir(k, a) \o " ] && echo \"True\""
CmdCreateVenv(k, a) == "virtualenv -p=" \o k.python_cmd \o " " \o RemoteVenvDir(k, a)
CmdPythonLocation(k, a) == "which " \o RemotePythonCmd(k, a)
CmdInstallIpython(k, a, sudo) == sudo \o " " \o RemotePipCmd(k, a) \o " install jupyter"
CmdDoesRemoteKernelExist(k, a) == RemoteJupyterCmd(k, a) \o " kernelspec list"
CmdCreateIpyKernel(k, a, sudo) ==
    sudo \o " " \o RemotePythonCmd(k, a) \o " -m ipykernel install --name=" \o k.rk_id
RemoteRequirementsFile(k, a) == PathJoin(RemoteVenvDir(k, a), "requirements.txt")
CmdInstallReqs(k, a, sudo) ==
    sudo \o " " \o RemotePipCmd(k, a) \o " install -r " \o RemoteRequirementsFile(k, a)

\* the session the remote side sees, and a directory in it
Session(k, user) == RemoteHost(user, k.uri)

---------------------------------------------------------------------------
(* RKManager.create.__create: the decisions it takes *)

\* duplicates = [x for x in rks if x == remotekernel]
Duplicates(rks, k) == {x \in rks : RemoteKernelEq(x, k)}

\* some duplicate has the kernel id of the new kernel
SameIdDuplicate(rks, k) == \E dupe \in Duplicates(rks, k) : dupe.rk_id = k.rk_id

\* LocalCheckRaises on any duplicate, whatever its kernel id
LocalCheckRaises_AnyDuplicate(rks, k, overwrite) == Duplicates(rks, k) # {}

\* the local check raises "already exists and 'overwrite' not set"
LocalCheckRaises(rks, k, overwrite) == SameIdDuplicate(rks, k) /\ ~overwrite

\* the local variable `overwrite` after the loop over the duplicates
LocalOverwrite(rks, k, overwrite) == SameIdDuplicate(rks, k) /\ overwrite

\* the names the remote check reads: stdout is the (stdout, stderr) pair that
\* __execute_ssh returns, so stdout[1:] is (stderr,), and '\s' is the two
\* characters backslash and s
RemoteNames(out) == {SplitFirst(out[i], "\\s") : i \in 2..Len(out)}

\* the remote check raises "exists on remote and 'overwrite' not set"
RemoteCheckRaises(out, k, overwrite) == k.rk_id \in RemoteNames(out) /\ ~overwrite

\* the text `jupyter kernelspec list` prints when the kernels `names` are registered
KernelspecListing(names) ==
    IF names = {} THEN "Available kernels:\n"
    ELSE LET n == CHOOSE x \in names : TRUE
         IN  "Available kernels:\n  " \o n \o "    /usr/local/share/jupyter/kernels/" \o n \o "\n"

---------------------------------------------------------------------------
(* RKManager.create *)

ExecResults == {"ok", "failed"}
WhichOutputs == {"", "/usr/bin/python\n", "/home/ubuntu/bin/python\n"}
StderrInputs == {"", "k1", "k1\\s is registered"}

Event(ev, cmd, rc) == [ev |-> ev, cmd |-> cmd, rc |-> rc]

\* the caller calls create(remotekernel, requirements_file=..., overwrite=..., ...)
CallCreate(p) ==
    /\ pc[p] = "built"
    /\ \E overwrite \in OverwriteInputs, requirements_file \in RequirementsInputs,
         remote_username \in UsernameInputs, remote_venv_root_dir \in RootDirInputs :
         args' = [args EXCEPT ![p] =
                    [overwrite |-> overwrite, requirements_file |-> requirements_file,
                     remote_username |-> remote_username,
                     remote_venv_root_dir |-> remote_venv_root_dir, uri |-> None]]
    /\ op' = [op EXCEPT ![p] = "create"]
    /\ pre' = [pre EXCEPT ![p] = manifest]
    /\ Goto(p, "connect")
    /\ UNCHANGED <<manifest, remoteDirs, rk, loc, log, cmp>>

\* the user name of the session: create passes remote_username, remove the default
SessionUser(p) == IF op[p] = "create" THEN RemoteUsername(args[p]) ELSE "ubuntu"

\* RKManager.__run_remote: connect, then func()
Connect(p) ==
    /\ pc[p] = "connect"
    /\ \/ /\ Emit(p, Event("connect", Session(rk[p], SessionUser(p)), "ok"))
          /\ Goto(p, IF op[p] = "create" THEN "c_check" ELSE "r_load")
       \/ /\ Emit(p, Event("connect", Session(rk[p], SessionUser(p)), "failed"))
          /\ Raise(p, "SSHException")
    /\ UNCHANGED <<manifest, remoteDirs, op, rk, args, loc, pre, cmp>>

\* rks = self.get_installed() and the check for a kernel that exists locally
Create_CheckLocal(p) ==
    /\ pc[p] = "c_check"
    /\ Emit(p, Event("manifest_read", "kernels.json", "ok"))
    /\ IF GetInstalledErrors(manifest, None) # {}
       THEN /\ \E exc \in GetInstalledErrors(manifest, None) : Raise(p, exc)
            /\ UNCHANGED loc
       ELSE LET rks == GetInstalled(manifest, None) IN
            IF LocalCheckRaises(rks, rk[p], args[p].overwrite)
            THEN /\ Raise(p, "AlreadyExists")
                 /\ UNCHANGED loc
            ELSE /\ loc' = [loc EXCEPT ![p].overwrite =
                                LocalOverwrite(rks, rk[p], args[p].overwrite)]
                 /\ Goto(p, IF ~Falsy(rk[p].venv_name) THEN "c_probe" ELSE "c_which")
    /\ UNCHANGED <<manifest, remoteDirs, op, rk, args, pre, cmp>>

\* a remote command whose output create does not read: it runs and exits with
\* or without an error (which __execute_ssh does not look at), or the
\* transport raises
ExecIgnored(p, ev, cmd, next) ==
    \/ \E rc \in ExecResults :
         /\ Emit(p, Event(ev, cmd, rc))
         /\ Goto(p, next)
    \/ /\ Emit(p, Event(ev, cmd, "raised"))
       /\ Raise(p, "SSHException")

VenvPlace(p) == <<Session(rk[p], SessionUser(p)), RemoteVenvDir(rk[p], args[p])>>

\* VenvMissing with the probe's answer ignored
VenvMissing_Always(stdout) == TRUE

\* `if not stdout`: the probe printed nothing, the directory is not there
VenvMissing(stdout) == Falsy(stdout)

\* [ -d venv_dir ] && echo "True"
Create_ProbeVenv(p) ==
    /\ pc[p] = "c_probe"
    /\ \/ LET stdout == IF VenvPlace(p) \in remoteDirs THEN "True\n" ELSE "" IN
          /\ Emit(p, Event("venv_probe", CmdDoesVenvExist(rk[p], args[p]), "ok"))
          /\ loc' = [loc EXCEPT ![p].stdout = stdout]
          /\ Goto(p, IF VenvMissing(stdout) THEN "c_mkvenv" ELSE "c_pip")
       \/ /\ Emit(p, Event("venv_probe", CmdDoesVenvExist(rk[p], args[p]), "raised"))
          /\ Raise(p, "SSHException")
          /\ UNCHANGED loc
    /\ UNCHANGED <<manifest, remoteDirs, op, rk, args, pre, cmp>>

\* virtualenv -p=python_cmd venv_dir
Create_MakeVenv(p) ==
    /\ pc[p] = "c_mkvenv"
    /\ \/ /\ Emit(p, Event("venv_create", CmdCreateVenv(rk[p], args[p]), "ok"))
          /\ remoteDirs' = remoteDirs \cup {VenvPlace(p)}
          /\ Goto(p, "c_pip")
       \/ /\ Emit(p, Event("venv_create", CmdCreateVenv(rk[p], args[p]), "failed"))
          /\ UNCHANGED remoteDirs
          /\ Goto(p, "c_pip")
       \/ /\ Emit(p, Event("venv_create", CmdCreateVenv(rk[p], args[p]), "raised"))
          /\ UNCHANGED remoteDirs
          /\ Raise(p, "SSHException")
    /\ UNCHANGED <<manifest, op, rk, args, loc, pre, cmp>>

\* which python: sudo when the interpreter is under /usr
Create_WhichPython(p) ==
    /\ pc[p] = "c_which"
    /\ \/ \E py_location_stdout \in WhichOutputs :
            /\ Emit(p, Event("which_python", CmdPythonLocation(rk[p], args[p]), "ok"))
            /\ loc' = [loc EXCEPT ![p].sudo =
                         IF StartsWith(py_location_stdout, "/usr") THEN "sudo" ELSE ""]
            /\ Goto(p, "c_pip")
       \/ /\ Emit(p, Event("which_python", CmdPythonLocation(rk[p], args[p]), "raised"))
          /\ Raise(p, "SSHException")
          /\ UNCHANGED loc
    /\ UNCHANGED <<manifest, remoteDirs, op, rk, args, pre, cmp>>

\* pip install jupyter
Create_InstallJupyter(p) ==
    /\ pc[p] = "c_pip"
    /\ ExecIgnored(p, "install_jupyter", CmdInstallIpython(rk[p], args[p], loc[p].sudo), "c_list")
    /\ UNCHANGED <<manifest, remoteDirs, op, rk, args, loc, pre, cmp>>

\* jupyter kernelspec list, and the check for a kernel that exists on the remote
Create_ListRemote(p) ==
    /\ pc[p] = "c_list"
    /\ \/ \E listed \in {{}, {rk[p].rk_id}}, stderr \in StderrInputs :
            LET stdout == <<KernelspecListing(listed), stderr>> IN
            /\ Emit(p, Event("kernelspec_list", CmdDoesRemoteKernelExist(rk[p], args[p]),
                             IF listed = {} THEN "absent" ELSE "listed"))
            /\ IF RemoteCheckRaises(stdout, rk[p], args[p].overwrite)
               THEN Raise(p, "RemoteExists")
               ELSE Goto(p, "c_register")
       \/ /\ Emit(p, Event("kernelspec_list", CmdDoesRemoteKernelExist(rk[p], args[p]), "raised"))
          /\ Raise(p, "SSHException")
    /\ UNCHANGED <<manifest, remoteDirs, op, rk, args, loc, pre, cmp>>

\* Create_RegisterKernel going on to the manifest whatever requirements_file is
Create_RegisterKernel_SkipsRequirements(p) ==
    /\ pc[p] = "c_register"
    /\ ExecIgnored(p, "kernel_register", CmdCreateIpyKernel(rk[p], args[p], loc[p].sudo),
                   "c_load")
    /\ UNCHANGED <<manifest, remoteDirs, op, rk, args, loc, pre, cmp>>

\* python -m ipykernel install --name=rk_id
Create_RegisterKernel(p) ==
    /\ pc[p] = "c_register"
    /\ ExecIgnored(p, "kernel_register", CmdCreateIpyKernel(rk[p], args[p], loc[p].sudo),
                   IF ~Falsy(args[p].requirements_file) THEN "c_scp" ELSE "c_load")
    /\ UNCHANGED <<manifest, remoteDirs, op, rk, args, loc, pre, cmp>>

\* os.path.join(remote_venv_dir, 'requirements.txt') and the scp of the file
Create_PutRequirements(p) ==
    /\ pc[p] = "c_scp"
    /\ IF RemoteVenvDir(rk[p], args[p]) = None
       THEN /\ Raise(p, "TypeError")
            /\ UNCHANGED log
       ELSE \/ /\ Emit(p, Event("scp_put", RemoteRequirementsFile(rk[p], args[p]), "ok"))
               /\ Goto(p, "c_reqs")
            \/ /\ Emit(p, Event("scp_put", RemoteRequirementsFile(rk[p], args[p]), "raised"))
               /\ Raise(p, "SCPException")
    /\ UNCHANGED <<manifest, remoteDirs, op, rk, args, loc, pre, cmp>>

\* pip install -r requirements.txt
Create_InstallRequirements(p) ==
    /\ pc[p] = "c_reqs"
    /\ ExecIgnored(p, "install_reqs", CmdInstallReqs(rk[p], args[p], loc[p].sudo), "c_load")
    /\ UNCHANGED <<manifest, remoteDirs, op, rk, args, loc, pre, cmp>>

\* CreateDictUpdate starting from an empty dict
CreateDictUpdate_OnlyNew(kernel_dict, k, a) ==
    JObj(DictPut(EmptyDict, k.rk_id, ManifestRecord(k, a)))

\* kernel_dict[rk_id] = {...} on what json.load returned
CreateDictUpdate(kernel_dict, k, a) ==
    JObj(DictPut(kernel_dict.o, k.rk_id, ManifestRecord(k, a)))

\* kernel_dict = self.__get_local_kernelspec_dict(); kernel_dict[rk_id] = {...}
Create_LoadManifest(p) ==
    /\ pc[p] = "c_load"
    /\ Emit(p, Event("manifest_read", "kernels.json", "ok"))
    /\ IF IsObj(manifest)
       THEN /\ loc' = [loc EXCEPT ![p].kernel_dict = CreateDictUpdate(manifest, rk[p], args[p])]
            /\ Goto(p, "c_open")
       ELSE /\ Raise(p, IF IsJson(manifest) THEN "TypeError" ELSE "JSONDecodeError")
            /\ UNCHANGED loc
    /\ UNCHANGED <<manifest, remoteDirs, op, rk, args, pre, cmp>>

\* open(self.__get_local_kernelspec_path(), 'w'): the file is truncated
Create_OpenManifest(p) ==
    /\ pc[p] = "c_open"
    /\ manifest' = EmptyFile
    /\ Emit(p, Event("manifest_open", "kernels.json", "ok"))
    /\ Goto(p, "c_save")
    /\ UNCHANGED <<remoteDirs, op, rk, args, loc, pre, cmp>>

\* Create_SaveManifest adding its record to the document it finds in the file
Create_SaveManifest_Merging(p) ==
    /\ pc[p] = "c_save"
    /\ manifest' = WriteFile(IF IsObj(manifest)
                             THEN CreateDictUpdate(manifest, rk[p], args[p])
                             ELSE loc[p].kernel_dict, manifest)
    /\ Emit(p, Event("manifest_write", "kernels.json", "ok"))
    /\ Goto(p, IF loc[p].overwrite THEN "c_uninstall" ELSE "c_install")
    /\ UNCHANGED <<remoteDirs, op, rk, args, loc, pre, cmp>>

\* json.dump(kernel_dict, ks) and the close of the file
Create_SaveManifest(p) ==
    /\ pc[p] = "c_save"
    /\ manifest' = WriteFile(loc[p].kernel_dict, manifest)
    /\ Emit(p, Event("manifest_write", "kernels.json", "ok"))
    /\ Goto(p, IF loc[p].overwrite THEN "c_uninstall" ELSE "c_install")
    /\ UNCHANGED <<remoteDirs, op, rk, args, loc, pre, cmp>>

\* run(['sudo', 'rk', 'uninstall', rk_id]) when overwriting
Create_Uninstall(p) ==
    /\ pc[p] = "c_uninstall"
    /\ Emit(p, Event("rk_uninstall", rk[p].rk_id, "ok"))
    /\ Goto(p, "c_install")
    /\ UNCHANGED <<manifest, remoteDirs, op, rk, args, loc, pre, cmp>>

\* run(['sudo', 'rk', 'install', rk_id])
Create_Install(p) ==
    /\ pc[p] = "c_install"
    /\ Emit(p, Event("rk_install", rk[p].rk_id, "ok"))
    /\ pc' = [pc EXCEPT ![p] = "done"]
    /\ res' = [res EXCEPT ![p] = "ok"]
    /\ UNCHANGED <<manifest, remoteDirs, op, rk, args, loc, pre, cmp>>

create(p) ==
    \/ CallCreate(p)
    \/ Create_CheckLocal(p)
    \/ Create_ProbeVenv(p)
    \/ Create_MakeVenv(p)
    \/ Create_WhichPython(p)
    \/ Create_InstallJupyter(p)
    \/ Create_ListRemote(p)
    \/ Create_RegisterKernel(p)
    \/ Create_PutRequirements(p)
    \/ Create_InstallRequirements(p)
    \/ Create_LoadManifest(p)
    \/ Create_OpenManifest(p)
    \/ Create_SaveManifest(p)
    \/ Create_Uninstall(p)
    \/ Create_Install(p)

---------------------------------------------------------------------------
(* RKManager.remove *)

\* DictContains with the check of the id left out
DictContains_Always(kernel_dict, rk_id) == TRUE

\* `rk_id in kernel_dict`, on a dict or a str (on None it raises TypeError)
DictContains(kernel_dict, rk_id) ==
    IF IsObj(kernel_dict) THEN rk_id \in DOMAIN kernel_dict.o
    ELSE IsStr(kernel_dict) /\ IsSubstring(rk_id, kernel_dict.s)

\* new_kd = kernel_dict.pop(rk_id); json.dump(new_kd, new_ks): the document
\* remove writes is what pop returns, the value stored under rk_id
RemoveWrites(kernel_dict, rk_id) == kernel_dict.o[rk_id]

\* the caller calls remove(remotekernel)
CallRemove(p) ==
    /\ pc[p] = "built"
    /\ op' = [op EXCEPT ![p] = "remove"]
    /\ pre' = [pre EXCEPT ![p] = manifest]
    /\ Goto(p, "connect")
    /\ UNCHANGED <<manifest, remoteDirs, rk, args, loc, log, cmp>>

\* kernel_dict = self.__get_local_kernelspec_dict() and the check of the id
Remove_Load(p) ==
    /\ pc[p] = "r_load"
    /\ Emit(p, Event("manifest_read", "kernels.json", "ok"))
    /\ IF ~IsJson(manifest)
       THEN /\ Raise(p, "JSONDecodeError")
            /\ UNCHANGED loc
       ELSE IF IsNull(manifest)
       THEN /\ Raise(p, "TypeError")
            /\ UNCHANGED loc
       ELSE IF ~DictContains(manifest, rk[p].rk_id)
       THEN /\ Raise(p, "NotFound")
            /\ UNCHANGED loc
       ELSE /\ loc' = [loc EXCEPT ![p].kernel_dict = manifest]
            /\ Goto(p, "r_uninstall")
    /\ UNCHANGED <<manifest, remoteDirs, op, rk, args, pre, cmp>>

\* run(['sudo', 'rk', 'uninstall', rk_id])
Remove_Uninstall(p) ==
    /\ pc[p] = "r_uninstall"
    /\ Emit(p, Event("rk_uninstall", rk[p].rk_id, "ok"))
    /\ Goto(p, "r_open")
    /\ UNCHANGED <<manifest, remoteDirs, op, rk, args, loc, pre, cmp>>

\* new_kd = kernel_dict.pop(rk_id), then open(path, 'w'): the file is truncated
Remove_OpenManifest(p) ==
    /\ pc[p] = "r_open"
    /\ IF IsObj(loc[p].kernel_dict)
       THEN /\ manifest' = EmptyFile
            /\ Emit(p, Event("manifest_open", "kernels.json", "ok"))
            /\ Goto(p, "r_save")
       ELSE /\ Raise(p, "AttributeError")
            /\ UNCHANGED <<manifest, log>>
    /\ UNCHANGED <<remoteDirs, op, rk, args, loc, pre, cmp>>

\* json.dump(new_kd, new_ks) and the close of the file
Remove_Save(p) ==
    /\ pc[p] = "r_save"
    /\ manifest' = WriteFile(RemoveWrites(loc[p].kernel_dict, rk[p].rk_id), manifest)
    /\ Emit(p, Event("manifest_write", "kernels.json", "ok"))
    /\ pc' = [pc EXCEPT ![p] = "done"]
    /\ res' = [res EXCEPT ![p] = "ok"]
    /\ UNCHANGED <<remoteDirs, op, rk, args, loc, pre, cmp>>

remove(p) ==
    \/ CallRemove(p)
    \/ Remove_Load(p)
    \/ Remove_Uninstall(p)
    \/ Remove_OpenManifest(p)
    \/ Remove_Save(p)

---------------------------------------------------------------------------
(* Specifications *)

Step(p) ==
    \/ NewRemoteKernel(p)
    \/ ListInstalled(p)
    \/ Connect(p)
    \/ create(p)
    \/ remove(p)
    \/ Return(p)

\* one caller: the invocations follow one another
Next == Step("p1")

Spec == Init /\ [][Next]_vars

---------------------------------------------------------------------------
(* Two callers, one invocation each, on the same kernels.json: nothing in
   RKManager locks the file, so their steps interleave.  The environment is
   quiet: no venv, no requirements file, the transport never raises, every
   remote command exits with 0 and python is not under /usr. *)

\* the manifests the callers may start from: empty, or what one create left
ConcManifests ==
    {JObj(EmptyDict)} \cup
    {CreateDictUpdate(JObj(EmptyDict), RemoteKernel("h", k, None, "python", None), NoArgs) :
        k \in KernelIds}

ConcInit ==
    /\ manifest \in ConcManifests
    /\ remoteDirs = {}
    /\ pc = [p \in Procs |-> "idle"]
    /\ op = [p \in Procs |-> "none"]
    /\ rk = [p \in Procs |-> NoKernel]
    /\ args = [p \in Procs |-> NoArgs]
    /\ loc = [p \in Procs |-> NoLoc]
    /\ res = [p \in Procs |-> "none"]
    /\ pre = [p \in Procs |-> JNull]
    /\ log = [p \in Procs |-> <<>>]
    /\ cmp = NoCmp

Quiet ==
    \A p \in Procs :
        /\ Falsy(rk[p].venv_name)
        /\ Falsy(args[p].requirements_file)
        /\ loc[p].sudo = ""
        /\ res[p] # "ValueError"
        /\ \A i \in 1..Len(log[p]) : log[p][i].rc \in {"ok", "absent"}

\* the steps of one caller's single invocation that a quiet environment allows
ConcStep(p) ==
    \/ NewRemoteKernel(p) /\ Quiet'
    \/ Connect(p) /\ Quiet'
    \/ CallCreate(p) /\ Quiet'
    \/ Create_CheckLocal(p) /\ Quiet'
    \/ Create_WhichPython(p) /\ Quiet'
    \/ Create_InstallJupyter(p) /\ Quiet'
    \/ Create_ListRemote(p) /\ Quiet'
    \/ Create_RegisterKernel(p) /\ Quiet'
    \/ Create_LoadManifest(p) /\ Quiet'
    \/ Create_OpenManifest(p) /\ Quiet'
    \/ Create_SaveManifest(p) /\ Quiet'
    \/ Create_Uninstall(p) /\ Quiet'
    \/ Create_Install(p) /\ Quiet'
    \/ CallRemove(p) /\ Quiet'
    \/ Remove_Load(p) /\ Quiet'
    \/ Remove_Uninstall(p) /\ Quiet'
    \/ Remove_OpenManifest(p) /\ Quiet'
    \/ Remove_Save(p) /\ Quiet'

ConcNext == \E p \in Procs : ConcStep(p)

ConcSpec == ConcInit /\ [][ConcNext]_vars

---------------------------------------------------------------------------
(* RemoteKernel.__eq__ on its own: three objects are built, then compared *)

EqUriInputs == {"h", "ubuntu@h"}
EqPythonCmdInputs == {"python", "python3"}
EqDisplayNameInputs == {None, "My kernel"}

\* the RemoteKernel objects the constructor accepts, over the inputs
EqKernels ==
    {RemoteKernel(uri, rk_id, venv, python_cmd, display_name) :
        uri \in EqUriInputs, rk_id \in KernelIds, venv \in VenvInputs,
        python_cmd \in EqPythonCmdInputs, display_name \in EqDisplayNameInputs}

EqInit ==
    /\ manifest = JObj(EmptyDict)
    /\ remoteDirs = {}
    /\ pc = [p \in Procs |-> "idle"]
    /\ op = [p \in Procs |-> "none"]
    /\ rk = [p \in Procs |-> NoKernel]
    /\ args = [p \in Procs |-> NoArgs]
    /\ loc = [p \in Procs |-> NoLoc]
    /\ res = [p \in Procs |-> "none"]
    /\ pre = [p \in Procs |-> JNull]
    /\ log = [p \in Procs |-> <<>>]
    /\ \E a \in EqKernels, b \in EqKernels, c \in EqKernels :
         cmp = [NoCmp EXCEPT !.a = a, !.b = b, !.c = c]

\* a == a, a == b, b == a, b == c, a == c
Compare ==
    /\ ~cmp.compared
    /\ cmp' = [cmp EXCEPT !.compared = TRUE,
                          !.aa = RemoteKernelEq(cmp.a, cmp.a),
                          !.ab = RemoteKernelEq(cmp.a, cmp.b),
                          !.ba = RemoteKernelEq(cmp.b, cmp.a),
                          !.bc = RemoteKernelEq(cmp.b, cmp.c),
                          !.ac = RemoteKernelEq(cmp.a, cmp.c)]
    /\ UNCHANGED <<manifest, remoteDirs, pc, op, rk, args, loc, res, pre, log>>

EqNext == Compare

EqSpec == EqInit /\ [][EqNext]_vars

---------------------------------------------------------------------------
(* What the claims speak of *)

RecordKeys == {"display_name", "interpreter", "language", "remote_host", "venv"}

\* a manifest record as the manifest file format has it
WellFormedRecord(y) ==
    /\ IsObj(y)
    /\ DOMAIN y.o = RecordKeys
    /\ IsStr(y.o["display_name"])
    /\ IsStr(y.o["interpreter"])
    /\ y.o["language"] = JStr("python")
    /\ IsStr(y.o["remote_host"])
    /\ IsStr(y.o["venv"]) \/ IsNull(y.o["venv"])

\* a manifest: a mapping from kernel id to record
WellFormed(m) == IsObj(m) /\ \A k \in DOMAIN m.o : WellFormedRecord(m.o[k])

HasId(m, k) == IsObj(m) /\ k \in DOMAIN m.o

\* manifest m without the entry of k
Without(m, k) == JObj([x \in (DOMAIN m.o) \ {k} |-> m.o[x]])

\* the invocation has had the effect ev
Logged(p, ev) == \E i \in 1..Len(log[p]) : log[p][i].ev = ev

\* the record of a descriptor d created as user
RecordOf(d, user) ==
    [display_name |-> JStr(d.display_name),
     interpreter  |-> JStr(d.python_cmd),
     language     |-> JStr("python"),
     remote_host  |-> JStr(user \o "@" \o d.uri),
     venv         |-> IF d.venv_name = None THEN JNull ELSE JStr(d.venv_name)]

UserOf(a) == IF a.remote_username \in {None, ""} THEN "ubuntu" ELSE a.remote_username

\* record y holds the configuration (host, venv, interpreter) of descriptor d:
\* its host as get_installed reads it back (the whole remote_host), or d's host
\* as create stores it (user@host)
SameConfiguration(y, d, a) ==
    /\ y.o["remote_host"] \in {JStr(d.uri), JStr(UserOf(a) \o "@" \o d.uri)}
    /\ y.o["venv"] = (IF d.venv_name = None THEN JNull ELSE JStr(d.venv_name))
    /\ y.o["interpreter"] = JStr(d.python_cmd)

---------------------------------------------------------------------------
(* Claims *)

\* C1: after remove(k) of an id k present in manifest M has completed, the
\* manifest is M without k: every other record unchanged, and no k.
C1_RemoveLeavesTheRest ==
    \A p \in Procs :
        (/\ op[p] = "remove"
         /\ pc[p] = "done"
         /\ WellFormed(pre[p])
         /\ HasId(pre[p], rk[p].rk_id))
        => manifest = Without(pre[p], rk[p].rk_id)

\* C2: create of an id the manifest already holds, overwrite not set, is
\* refused by the local check with the already-exists error (it never gets
\* past that check), and the manifest stays what it was.
C2_CreateExistingRefused ==
    \A p \in Procs :
        (/\ op[p] = "create"
         /\ ~args[p].overwrite
         /\ WellFormed(pre[p])
         /\ HasId(pre[p], rk[p].rk_id))
        => /\ pc[p] \in {"connect", "c_check", "raised"}
           /\ pc[p] = "raised" => res[p] \in {"AlreadyExists", "SSHException"}
           /\ manifest = pre[p]

\* C3: create of an id the manifest already holds, overwrite set, succeeds:
\* it ends with no exception but one of the transport (the connection, a
\* remote command or the copy cannot be carried out), and when it has
\* returned the manifest holds under that id the record of the new
\* descriptor: its display name, interpreter, venv and user@host.
C3_OverwriteReplacesRecord ==
    \A p \in Procs :
        (/\ op[p] = "create"
         /\ args[p].overwrite
         /\ WellFormed(pre[p])
         /\ HasId(pre[p], rk[p].rk_id))
        => /\ pc[p] = "raised" => res[p] \in {"SSHException", "SCPException"}
           /\ pc[p] = "done" =>
                /\ HasId(manifest, rk[p].rk_id)
                /\ IsObj(manifest.o[rk[p].rk_id])
                /\ manifest.o[rk[p].rk_id].o = RecordOf(rk[p], UserOf(args[p]))

\* C4: after a create(d) that returned, the unfiltered list holds a descriptor
\* with the kernel id of d whose host, venv and interpreter are those of d.
C4_CreateThenListRoundTrip ==
    \A p \in Procs :
        (op[p] = "create" /\ pc[p] = "done")
        => /\ GetInstalledErrors(manifest, None) = {}
           /\ \E x \in GetInstalled(manifest, None) :
                /\ x.rk_id = rk[p].rk_id
                /\ x.uri = rk[p].uri
                /\ x.venv_name = rk[p].venv_name
                /\ x.python_cmd = rk[p].python_cmd

\* C5: remove of an id the manifest (a JSON object) does not hold ends with
\* the not-found error once the session is open, leaves the manifest as it
\* was and does not run `rk uninstall`.
C5_RemoveAbsentRefused ==
    \A p \in Procs :
        (/\ op[p] = "remove"
         /\ IsObj(pre[p])
         /\ rk[p].rk_id \notin DOMAIN pre[p].o)
        => /\ pc[p] \in {"connect", "r_load", "raised"}
           /\ pc[p] = "raised" =>
                res[p] = (IF Logged(p, "manifest_read") THEN "NotFound" ELSE "SSHException")
           /\ manifest = pre[p]
           /\ ~Logged(p, "rk_uninstall")
           /\ ~Logged(p, "manifest_write")

C5_Witness ==
    \E p \in Procs :
        /\ op[p] = "remove"
        /\ WellFormed(pre[p])
        /\ DOMAIN pre[p].o # {}
        /\ rk[p].rk_id \notin DOMAIN pre[p].o
        /\ pc[p] = "raised"
        /\ res[p] = "NotFound"

\* C6: when the remote kernelspec listing shows the requested kernel id and
\* overwrite is not set, create ends with the remote-already-exists error
\* before the kernel is registered remotely and before the manifest is written.
C6_RemoteExistingRefused ==
    \A p \in Procs :
        (/\ op[p] = "create"
         /\ ~args[p].overwrite
         /\ \E i \in 1..Len(log[p]) :
                log[p][i].ev = "kernelspec_list" /\ log[p][i].rc = "listed")
        => /\ pc[p] = "raised"
           /\ res[p] = "RemoteExists"
           /\ ~Logged(p, "kernel_register")
           /\ ~Logged(p, "manifest_write")

\* C7: create of an id k the manifest does not hold, while a record under
\* another id j has the same (host, venv, interpreter), is not refused as
\* already existing, whatever overwrite is; when it has returned, the manifest
\* holds k and every such j unchanged.
C7_DuplicateConfigurationProceeds ==
    \A p \in Procs :
        (/\ op[p] = "create"
         /\ WellFormed(pre[p])
         /\ ~HasId(pre[p], rk[p].rk_id)
         /\ \E j \in DOMAIN pre[p].o : SameConfiguration(pre[p].o[j], rk[p], args[p]))
        => /\ res[p] # "AlreadyExists"
           /\ pc[p] = "done" =>
                /\ HasId(manifest, rk[p].rk_id)
                /\ \A j \in DOMAIN pre[p].o : HasId(manifest, j) /\ manifest.o[j] = pre[p].o[j]

C7_Witness ==
    \E p \in Procs :
        /\ op[p] = "create"
        /\ ~args[p].overwrite
        /\ WellFormed(pre[p])
        /\ ~HasId(pre[p], rk[p].rk_id)
        /\ \E j \in DOMAIN pre[p].o : pre[p].o[j].o["remote_host"] = JStr(rk[p].uri)
                                      /\ SameConfiguration(pre[p].o[j], rk[p], args[p])
        /\ pc[p] = "done"

\* C8: from a well-formed manifest on, whatever create, remove and list
\* invocations have run, the manifest is a mapping from kernel id to a record
\* with the five keys, which get_installed can load (but for the moment a
\* caller is between the open and the write of its rewrite).
C8_ManifestStaysWellFormed ==
    (\A p \in Procs : pc[p] \notin {"c_save", "r_save"})
    => /\ WellFormed(manifest)
       /\ GetInstalledErrors(manifest, None) = {}

\* C9: list with filter h returns exactly one descriptor for each record whose
\* stored remote_host differs from h (for every record without a filter), built
\* from that record's fields, with no remote command and the manifest untouched.
C9_ListReturnsKeptRecords ==
    \A p \in Procs :
        (op[p] = "list" /\ WellFormed(pre[p]))
        => /\ pc[p] = "done"
           /\ res[p] = "ok"
           /\ manifest = pre[p]
           /\ log[p] = <<>>
           /\ LET kept == IF args[p].uri = None THEN DOMAIN pre[p].o
                          ELSE {k \in DOMAIN pre[p].o :
                                  pre[p].o[k].o["remote_host"] # JStr(args[p].uri)}
              IN  /\ Cardinality(loc[p].ret) = Cardinality(kept)
                  /\ \A k \in kept : \E x \in loc[p].ret :
                        /\ x.rk_id = k
                        /\ JStr(x.uri) = pre[p].o[k].o["remote_host"]
                        /\ JStr(x.python_cmd) = pre[p].o[k].o["interpreter"]
                        /\ (IF x.venv_name = None THEN JNull ELSE JStr(x.venv_name))
                              = pre[p].o[k].o["venv"]

C9_Witness ==
    \E p \in Procs :
        /\ op[p] = "list"
        /\ WellFormed(pre[p])
        /\ args[p].uri # None
        /\ loc[p].ret # {}
        /\ Cardinality(loc[p].ret) < Cardinality(DOMAIN pre[p].o)

\* C10: a descriptor with an empty host, kernel id or interpreter command is
\* never built: the constructor raises ValueError, and no create or remove
\* runs with it (no call, no connection, no manifest access).
C10_InvalidDescriptorRejected ==
    \A p \in Procs :
        (rk[p].uri = "" \/ rk[p].rk_id = "" \/ rk[p].python_cmd = "")
        => /\ pc[p] = "raised"
           /\ res[p] = "ValueError"
           /\ op[p] = "none"
           /\ log[p] = <<>>

C10_Witness ==
    \E p \in Procs :
        /\ rk[p].rk_id = ""
        /\ rk[p].uri # ""
        /\ rk[p].python_cmd # ""
        /\ pc[p] = "raised"
        /\ res[p] = "ValueError"

\* C11: == on valid descriptors is reflexive, symmetric and transitive, and
\* two descriptors with the same host, venv and interpreter are equal whatever
\* their kernel ids and display names.
C11_EqualityIsEquivalenceOnConfiguration ==
    cmp.compared =>
        /\ cmp.aa
        /\ cmp.ab = cmp.ba
        /\ (cmp.ab /\ cmp.bc) => cmp.ac
        /\ (/\ cmp.a.uri = cmp.b.uri
            /\ cmp.a.venv_name = cmp.b.venv_name
            /\ cmp.a.python_cmd = cmp.b.python_cmd) => cmp.ab

C11_Witness ==
    /\ cmp.compared
    /\ cmp.ab /\ cmp.bc /\ cmp.ac
    /\ cmp.a.rk_id # cmp.b.rk_id
    /\ cmp.a.display_name # cmp.b.display_name
    /\ cmp.b.rk_id # cmp.c.rk_id

\* the document an invocation that completed has written to kernels.json
Written(p) ==
    IF op[p] = "create" THEN loc[p].kernel_dict
    ELSE RemoveWrites(loc[p].kernel_dict, rk[p].rk_id)

Completed(p) == pc[p] = "done" /\ res[p] = "ok" /\ op[p] \in {"create", "remove"}

\* C12: nothing serializes or merges the load-mutate-save sequences of two
\* concurrent invocations on different ids: when both have completed, the
\* file is the document one of them built from its own, possibly stale, load
\* (so the other's effect is in it only if that load came after the other's
\* write), or the text of that document over the longer text of the other's.
C12_NoMergeOfConcurrentWrites ==
    (/\ Completed("p1") /\ Completed("p2")
     /\ rk["p1"].rk_id # rk["p2"].rk_id)
    => manifest \in {Written("p1"), Written("p2"),
                     WriteFile(Written("p1"), Written("p2")),
                     WriteFile(Written("p2"), Written("p1"))}

\* a lost update: both creates completed, the first one's record is gone
C12_Witness ==
    /\ Completed("p1") /\ Completed("p2")
    /\ op["p1"] = "create" /\ op["p2"] = "create"
    /\ rk["p1"].rk_id # rk["p2"].rk_id
    /\ IsObj(manifest)
    /\ ~HasId(manifest, rk["p1"].rk_id)
    /\ HasId(manifest, rk["p2"].rk_id)

\* in the invocation's effects, one of kind e1 comes before one of kind e2
Before(p, e1, e2) ==
    \E i \in 1..Len(log[p]), j \in 1..Len(log[p]) :
        i < j /\ log[p][i].ev = e1 /\ log[p][j].ev = e2

\* the remote commands that provision the kernel
ProvisioningEvents == {"venv_create", "install_jupyter", "kernel_register", "install_reqs"}

\* the invocation is a create that returned normally
CreateDone(p) == op[p] = "create" /\ pc[p] = "done" /\ res[p] = "ok"

\* C13: when a provisioning command of create (venv creation, jupyter
\* install, kernel registration, requirements install) exits with an error,
\* create has no effect after it: no remote command, no manifest write, no
\* call of the registrar.
C13_FailedCommandEndsCreate ==
    \A p \in Procs :
        op[p] = "create" =>
            \A i \in 1..Len(log[p]) :
                (log[p][i].ev \in ProvisioningEvents /\ log[p][i].rc = "failed")
                => i = Len(log[p])

\* C14: in a create, every manifest write comes after the kernel registration
\* command, and after the requirements install when a requirements file was
\* given; the registrar install comes after the manifest write, and when it
\* has been called the manifest holds the kernel id.
C14_WriteAfterRegistrationInstallAfterWrite ==
    \A p \in Procs :
        op[p] = "create" =>
            /\ Logged(p, "manifest_write") =>
                 /\ Before(p, "kernel_register", "manifest_write")
                 /\ ~Falsy(args[p].requirements_file)
                      => Before(p, "install_reqs", "manifest_write")
            /\ Logged(p, "rk_install") =>
                 /\ Before(p, "manifest_write", "rk_install")
                 /\ HasId(manifest, rk[p].rk_id)

C14_Witness ==
    \E p \in Procs :
        /\ CreateDone(p)
        /\ ~Falsy(args[p].requirements_file)
        /\ Logged(p, "install_reqs")
        /\ Logged(p, "rk_install")

\* C15: a create with overwrite set that returned and replaced the record of
\* an id the manifest already held has called the registrar's uninstall
\* before its install; a create of an id the manifest did not hold has called
\* install and no uninstall.
C15_OverwriteUninstallsFirst ==
    \A p \in Procs :
        CreateDone(p) =>
            /\ (args[p].overwrite /\ HasId(pre[p], rk[p].rk_id))
                 => Before(p, "rk_uninstall", "rk_install")
            /\ ~HasId(pre[p], rk[p].rk_id)
                 => (Logged(p, "rk_install") /\ ~Logged(p, "rk_uninstall"))

\* C16: create issues the venv creation command only for a descriptor with a
\* venv name, right after a probe that printed nothing, and only while the
\* venv directory of that host does not exist: once a create has made the
\* directory no later create issues the command for it again.
C16_VenvCreatedOnlyWhenAbsent ==
    [][\A p \in Procs :
         (/\ Len(log'[p]) = Len(log[p]) + 1
          /\ log'[p][Len(log'[p])].ev = "venv_create")
         => /\ ~Falsy(rk[p].venv_name)
            /\ Len(log[p]) > 0
            /\ log[p][Len(log[p])].ev = "venv_probe"
            /\ loc[p].stdout = ""
            /\ VenvPlace(p) \notin remoteDirs]_vars

\* a later create on a venv directory that exists: probed, not created again
C16_Witness ==
    \E p \in Procs :
        /\ CreateDone(p)
        /\ ~Falsy(rk[p].venv_name)
        /\ VenvPlace(p) \in remoteDirs
        /\ Logged(p, "venv_probe")
        /\ ~Logged(p, "venv_create")

\* C17: a create of kernel id k that returned has left every record the
\* manifest held under another id in place and as it was.
C17_CreateKeepsOtherRecords ==
    \A p \in Procs :
        CreateDone(p) =>
            /\ IsObj(pre[p])
            /\ \A j \in (DOMAIN pre[p].o) \ {rk[p].rk_id} :
                 HasId(manifest, j) /\ manifest.o[j] = pre[p].o[j]

C17_Witness ==
    \E p \in Procs :
        /\ CreateDone(p)
        /\ \E j \in DOMAIN pre[p].o : j # rk[p].rk_id /\ manifest.o[j] = pre[p].o[j]
        /\ manifest # pre[p]

\* C18: a create given a requirements file that has got past the kernel
\* registration has copied the file to the remote host, and its manifest
\* write comes after the copy and then the install-from-file command, with a
\* venv name and without one; a create given no requirements file does
\* neither.
C18_RequirementsCopiedThenInstalled ==
    \A p \in Procs :
        op[p] = "create" =>
            /\ (/\ ~Falsy(args[p].requirements_file)
                /\ Logged(p, "kernel_register")
                /\ pc[p] \notin {"c_scp"}
                /\ res[p] # "SSHException")
               => /\ Logged(p, "scp_put")
                  /\ Logged(p, "manifest_write")
                       => /\ Before(p, "scp_put", "install_reqs")
                          /\ Before(p, "install_reqs", "manifest_write")
            /\ Falsy(args[p].requirements_file)
               => (~Logged(p, "scp_put") /\ ~Logged(p, "install_reqs"))

====
